---- MODULE Spec2Model ----
(***************************************************************************)
(* Model of src/web_scrapping/cleaner.py: the text normaliser clean_text,  *)
(* the record classifier categorize_unclean and the batch run              *)
(* clean_dataset (load, clean text, drop duplicates, categorize, filter,   *)
(* save, report).                                                          *)
(*                                                                         *)
(* A Python str is a sequence of one-character strings.  A cell of the     *)
(* DataFrame (or a value of a JSON record) is a record [kind, s]: a str    *)
(* with its characters, None (JSON null), NaN (the key is missing from     *)
(* the record but the column exists) or an int (a non-string value).       *)
(***************************************************************************)
EXTENDS Integers, Sequences, FiniteSets, TLC

VARIABLES
    pc,              \* position of the run (which statement of clean_dataset is next)
    rawExists,       \* RAW_PATH.exists()
    dirExists,       \* the output folder exists
    raw,             \* the JSON array held by the raw file
    naCollapse,      \* the pandas build treats None and NaN as the same duplicate key
    MIN_ANSWER_LEN,  \* config.get("min_answer_length", 15)
    df,              \* the DataFrame's rows, in order, each with its index label
    columns,         \* the DataFrame's columns
    total_raw,       \* len(df) right after loading
    clean_df,        \* rows selected as clean
    unclean_df,      \* the remaining rows
    cleanFile,       \* what CLEAN_PATH holds
    uncleanFile,     \* what UNCLEAN_PATH holds
    console,         \* the lines printed so far
    log,             \* the stages the run has gone through, in order
    text,            \* argument of clean_text (unit harness)
    out1,            \* clean_text(text)
    out2,            \* clean_text(clean_text(text))
    row,             \* argument of categorize_unclean (unit harness)
    rowCols,         \* the keys the row holds
    result,          \* categorize_unclean(row)
    idf,             \* add_intents_to_dataset: the rows read from CLEANED_DATA_PATH
    intents,         \* add_intents_to_dataset: the intents list
    calls,           \* per row classified: the LLM calls made and what came back
    intentFile       \* what INTENT_DATA_PATH holds

vars == <<pc, rawExists, dirExists, raw, naCollapse, MIN_ANSWER_LEN, df, columns,
          total_raw, clean_df, unclean_df, cleanFile, uncleanFile, console, log,
          text, out1, out2, row, rowCols, result, idf, intents, calls, intentFile>>

runVars == <<rawExists, dirExists, raw, naCollapse, df, columns, total_raw,
             clean_df, unclean_df, cleanFile, uncleanFile, console, log>>
textVars == <<text, out1, out2>>
rowVars == <<row, rowCols, result>>
intentVars == <<idf, intents, calls, intentFile>>

----------------------------------------------------------------------------
(* Bounds of the model *)

\* longest raw batch
MaxBatch == 3
\* longest string handed to clean_text in the unit harness
MaxTextLen == 6
\* a configured min_answer_length other than the default
ConfiguredMinLen == 3

\* the default of config.get("min_answer_length", 15)
DefaultMinLen == 15

----------------------------------------------------------------------------
(* Python values and strings *)

StrV(s) == [kind |-> "str", s |-> s]
None == [kind |-> "None", s |-> <<>>]
NaN == [kind |-> "NaN", s |-> <<>>]
IntV == [kind |-> "int", s |-> <<>>]

\* characters matched by \s (and removed by str.strip)
Whitespace == {" ", "\n"}
\* characters matched by \w, among those the model uses
WordChars == {"a", "b", "e", "f", "h", "n", "o", "p", "q", "s", "t",
              "A", "N", "O", "E", "1", "2", "4"}

IsSpace(c) == c \in Whitespace
IsWord(c) == c \in WordChars

\* a string of n copies of character c
Rep(c, n) == [i \in 1..n |-> c]

\* str(v): what astype(str) and str() make of a value
PyStr(v) ==
    CASE v.kind = "str" -> v.s
      [] v.kind = "None" -> <<"N", "o", "n", "e">>
      [] v.kind = "NaN" -> <<"n", "a", "n">>
      [] v.kind = "int" -> <<"4", "2">>

LowerChar(c) ==
    CASE c = "A" -> "a"
      [] c = "N" -> "n"
      [] c = "O" -> "o"
      [] c = "E" -> "e"
      [] c = "S" -> "s"
      [] c = "T" -> "t"
      [] c = "U" -> "u"
      [] c = "P" -> "p"
      [] OTHER -> c

\* str.lower()
Lower(s) == [i \in 1..Len(s) |-> LowerChar(s[i])]

RECURSIVE LStrip(_)
LStrip(s) == IF s # <<>> /\ IsSpace(Head(s)) THEN LStrip(Tail(s)) ELSE s

RECURSIVE RStrip(_)
RStrip(s) ==
    IF s # <<>> /\ IsSpace(s[Len(s)]) THEN RStrip(SubSeq(s, 1, Len(s) - 1)) ELSE s

\* str.strip()
Strip(s) == RStrip(LStrip(s))

\* str.startswith(p)
StartsWith(s, p) == Len(s) >= Len(p) /\ SubSeq(s, 1, Len(p)) = p

----------------------------------------------------------------------------
(* clean_text *)

\* length of the longest run of \w characters at the head of s
RECURSIVE WordRun(_)
WordRun(s) == IF s # <<>> /\ IsWord(Head(s)) THEN 1 + WordRun(Tail(s)) ELSE 0

\* length of the match of &\w+; at the head of s, 0 when there is none: \w+ is
\* greedy and ';' is no \w character, so the run must be followed by ';'
EntityLen(s) ==
    IF s # <<>> /\ Head(s) = "&"
    THEN LET n == WordRun(Tail(s))
         IN IF n >= 1 /\ Len(s) >= n + 2 /\ s[n + 2] = ";" THEN n + 2 ELSE 0
    ELSE 0

\* re.sub(r"&\w+;", " ", s): leftmost non-overlapping matches, left to right
RECURSIVE SubEntities(_)
SubEntities(s) ==
    IF s = <<>> THEN <<>>
    ELSE LET m == EntityLen(s)
         IN IF m > 0
            THEN <<" ">> \o SubEntities(SubSeq(s, m + 1, Len(s)))
            ELSE <<Head(s)>> \o SubEntities(Tail(s))

\* re.sub(r"\s+", " ", s)
RECURSIVE SubSpaces(_)
SubSpaces(s) ==
    IF s = <<>> THEN <<>>
    ELSE IF IsSpace(Head(s))
         THEN <<" ">> \o SubSpaces(LStrip(s))
         ELSE <<Head(s)>> \o SubSpaces(Tail(s))

\* clean_text with the two substitutions in the other order
clean_text_SpacesFirst(t) ==
    IF t.kind # "str" \/ t.s = <<>> THEN <<>>
    ELSE Strip(SubEntities(SubSpaces(t.s)))

\* clean_text without the final strip
clean_text_NoStrip(t) ==
    IF t.kind # "str" \/ t.s = <<>> THEN <<>>
    ELSE SubSpaces(SubEntities(t.s))

\* clean_text(text): "" for None or "", else entities, whitespace, strip
clean_text(t) ==
    IF t.kind # "str" \/ t.s = <<>> THEN <<>>
    ELSE Strip(SubSpaces(SubEntities(t.s)))

----------------------------------------------------------------------------
(* categorize_unclean *)

Https == <<"h", "t", "t", "p", "s">>

Reasons == {"No Answer", "Malformed Entry", "Too Short", "Other"}

\* row.get(c, ""): the cell, or "" when the row has no such key
RowGet(r, cols, c) == IF c \in cols THEN r[c] ELSE StrV(<<>>)

\* categorize_unclean with the url rule tried before the answer rule
categorize_unclean_UrlFirst(r, cols) ==
    LET ans == Strip(PyStr(RowGet(r, cols, "answer")))
        url == RowGet(r, cols, "url")
    IN IF url.kind # "str" \/ ~StartsWith(url.s, Https) THEN "Malformed Entry"
       ELSE IF Lower(ans) \in {<<>>, <<"n", "o", "n", "e">>, <<"n", "a", "n">>}
            THEN "No Answer"
       ELSE IF Len(ans) < MIN_ANSWER_LEN THEN "Too Short"
       ELSE "Other"

\* categorize_unclean(row): the first rule that matches, in the order of the code
\* (q, the stripped question, is computed by the code and never used)
categorize_unclean(r, cols) ==
    LET ans == Strip(PyStr(RowGet(r, cols, "answer")))
        url == RowGet(r, cols, "url")
    IN IF Lower(ans) \in {<<>>, <<"n", "o", "n", "e">>, <<"n", "a", "n">>}
       THEN "No Answer"
       ELSE IF url.kind # "str" \/ ~StartsWith(url.s, Https) THEN "Malformed Entry"
       ELSE IF Len(ans) < MIN_ANSWER_LEN THEN "Too Short"
       ELSE "Other"

----------------------------------------------------------------------------
(* Values the variables of a harness that is not running keep *)

NoRow == [url |-> None, question |-> None, body |-> None, answer |-> None]

IdleRun ==
    /\ rawExists = FALSE
    /\ dirExists = FALSE
    /\ raw = <<>>
    /\ naCollapse = FALSE
    /\ df = <<>>
    /\ columns = {}
    /\ total_raw = 0
    /\ clean_df = <<>>
    /\ unclean_df = <<>>
    /\ cleanFile = [state |-> "absent", rows |-> <<>>]
    /\ uncleanFile = [state |-> "absent", rows |-> <<>>]
    /\ console = <<>>
    /\ log = <<>>

IdleText == text = None /\ out1 = <<>> /\ out2 = <<>>

IdleRow == row = NoRow /\ rowCols = {} /\ result = ""

IdleIntent ==
    /\ idf = <<>>
    /\ intents = <<>>
    /\ calls = <<>>
    /\ intentFile = [state |-> "absent", rows |-> <<>>]

MinLens == {ConfiguredMinLen, DefaultMinLen}

----------------------------------------------------------------------------
(* Unit harness of clean_text: every string over TextAlphabet up to        *)
(* MaxTextLen characters, and None.                                        *)

TextAlphabet == {"&", ";", "a", " ", "\n"}

Texts ==
    {None} \cup
    {StrV(s) : s \in UNION {[1..n -> TextAlphabet] : n \in 0..MaxTextLen}}

InitText ==
    /\ pc = "text"
    /\ text \in Texts
    /\ out1 = <<>>
    /\ out2 = <<>>
    /\ MIN_ANSWER_LEN = DefaultMinLen
    /\ IdleRun
    /\ IdleRow
    /\ IdleIntent

\* out1 = clean_text(text)
Normalize ==
    /\ pc = "text"
    /\ out1' = clean_text(text)
    /\ pc' = "text_once"
    /\ UNCHANGED <<text, out2, MIN_ANSWER_LEN, runVars, rowVars, intentVars>>

\* out2 = clean_text(out1)
Renormalize ==
    /\ pc = "text_once"
    /\ out2' = clean_text(StrV(out1))
    /\ pc' = "text_twice"
    /\ UNCHANGED <<text, out1, MIN_ANSWER_LEN, runVars, rowVars, intentVars>>

NextText == Normalize \/ Renormalize

SpecText == InitText /\ [][NextText]_vars

----------------------------------------------------------------------------
(* Unit harness of categorize_unclean: rows with answers and urls of every *)
(* kind, with and without the keys.                                        *)

\* answers around the threshold m: empty, blank, the null spellings, one short
\* of m, exactly m, and m - 1 characters padded with whitespace
RowAnswers(m) ==
    {None, NaN, IntV,
     StrV(<<>>), StrV(<<" ", "\n">>),
     StrV(<<"N", "o", "n", "e">>), StrV(<<" ", "N", "A", "N", " ">>),
     StrV(<<"n", "o">>),
     StrV(Rep("a", m - 1)), StrV(Rep("a", m)),
     StrV(<<" ">> \o Rep("a", m - 1) \o <<" ">>),
     StrV(<<" ">> \o Rep("a", m) \o <<"\n">>)}

RowUrls ==
    {None, NaN, IntV,
     StrV(<<>>),
     StrV(<<"h", "t", "t", "p">>),
     StrV(<<"h", "t", "t", "p", ":", "1">>),
     StrV(<<"f", "t", "p", ":", "1">>),
     StrV(Https),
     StrV(Https \o <<":", "1">>),
     StrV(<<" ">> \o Https \o <<":", "1">>)}

InitRow ==
    /\ pc = "row"
    /\ MIN_ANSWER_LEN \in MinLens
    /\ \E a \in RowAnswers(MIN_ANSWER_LEN), u \in RowUrls :
          row = [url |-> u, question |-> None, body |-> None, answer |-> a]
    /\ rowCols \in {{"question", "body"} \cup k : k \in SUBSET {"url", "answer"}}
    /\ result = ""
    /\ IdleRun
    /\ IdleText
    /\ IdleIntent

\* result = categorize_unclean(row)
Categorize ==
    /\ pc = "row"
    /\ result' = categorize_unclean(row, rowCols)
    /\ pc' = "row_done"
    /\ UNCHANGED <<row, rowCols, MIN_ANSWER_LEN, runVars, textVars, intentVars>>

NextRow == Categorize

SpecRow == InitRow /\ [][NextRow]_vars

----------------------------------------------------------------------------
(* clean_dataset: the raw batches *)

Fields == {"url", "question", "body", "answer"}

\* one JSON record; a key the record lacks is NaN, as it reads in the DataFrame
Rec(u, q, b, a) == [url |-> u, question |-> q, body |-> b, answer |-> a]

U1 == StrV(Https \o <<":", "1">>)
U2 == StrV(Https \o <<":", "2">>)
UF == StrV(<<"f", "t", "p", ":", "1">>)
Q0 == StrV(<<"q", "&", "a", ";", "\n", "q">>)
B0 == StrV(<<" ", "b", " ">>)

\* exactly m characters once cleaned
Long(m) == StrV(<<" ">> \o Rep("a", m))
\* m + 2 characters raw, m - 1 once cleaned
Short(m) == StrV(Rep("a", m - 1) \o <<"&", "a", ";">>)
\* more than m characters once cleaned, with an entity inside
Longer(m) == StrV(<<"a", "&", "n", ";", " ">> \o Rep("b", m))
Blank == StrV(<<" ", "\n">>)

AllUrls == {U1, U2, UF, None, NaN}
AllAnswers(m) == {Long(m), Short(m), Longer(m), Blank, None, NaN}

\* every url with a good answer, every answer with a good url, the pairs in
\* which two rules of the classifier compete, and records without question or body
Pool(m) ==
    {Rec(u, Q0, B0, Long(m)) : u \in AllUrls}
    \cup {Rec(U1, Q0, B0, a) : a \in AllAnswers(m)}
    \cup {Rec(UF, Q0, B0, Short(m)), Rec(UF, Q0, B0, None), Rec(None, Q0, B0, None)}
    \cup {Rec(U2, None, NaN, Short(m)), Rec(U2, NaN, None, Long(m))}

Batches(m) == UNION {[1..n -> Pool(m)] : n \in 0..MaxBatch}

IsNA(v) == v.kind \in {"None", "NaN"}

Absent == [state |-> "absent", rows |-> <<>>]
Stale == [state |-> "stale", rows |-> <<>>]
Written(rows) == [state |-> "written", rows |-> rows]

Init ==
    /\ pc = "start"
    /\ MIN_ANSWER_LEN \in MinLens
    /\ rawExists \in BOOLEAN
    /\ raw \in (IF rawExists THEN Batches(MIN_ANSWER_LEN) ELSE {<<>>})
    \* RAW_PATH lies in the output folder
    /\ dirExists \in (IF rawExists THEN {TRUE} ELSE BOOLEAN)
    \* outputs of an earlier run may be there when no raw file is
    /\ cleanFile \in (IF dirExists /\ ~rawExists THEN {Absent, Stale} ELSE {Absent})
    /\ uncleanFile = cleanFile
    \* the build's choice shows only when both a None and a NaN url are there
    /\ naCollapse \in
          (IF \E i, j \in 1..Len(raw) :
                 raw[i].url.kind = "None" /\ raw[j].url.kind = "NaN"
           THEN BOOLEAN ELSE {FALSE})
    /\ df = <<>>
    /\ columns = {}
    /\ total_raw = 0
    /\ clean_df = <<>>
    /\ unclean_df = <<>>
    /\ console = <<>>
    /\ log = <<>>
    /\ IdleText
    /\ IdleRow
    /\ IdleIntent

----------------------------------------------------------------------------
(* clean_dataset: the statements *)

Line(what, value) == [what |-> what, value |-> value]

\* pd.DataFrame(data).columns: the keys some record holds
Columns(data) == {c \in Fields : \E i \in 1..Len(data) : data[i][c].kind # "NaN"}

\* pd.DataFrame(data): one row per record under a RangeIndex
DataFrame(data) ==
    [i \in 1..Len(data) |->
        [idx |-> i - 1, url |-> data[i].url, question |-> data[i].question,
         body |-> data[i].body, answer |-> data[i].answer, reason |-> ""]]

\* df.empty
Empty(rows, cols) == Len(rows) = 0 \/ cols = {}

\* the missing-file branch creating the output folder before it returns
NotFound_MakesFolder ==
    /\ pc = "start"
    /\ ~rawExists
    /\ log' = log
    /\ dirExists' = TRUE
    /\ console' = Append(console, Line("raw_data.json not found", 0))
    /\ pc' = "returned"
    /\ UNCHANGED <<rawExists, raw, naCollapse, MIN_ANSWER_LEN, df, columns,
                   total_raw, clean_df, unclean_df, cleanFile, uncleanFile,
                   textVars, rowVars, intentVars>>

\* the raw file is missing: report and return
NotFound ==
    /\ pc = "start"
    /\ ~rawExists
    /\ log' = log
    /\ console' = Append(console, Line("raw_data.json not found", 0))
    /\ pc' = "returned"
    /\ UNCHANGED <<rawExists, dirExists, raw, naCollapse, MIN_ANSWER_LEN, df, columns,
                   total_raw, clean_df, unclean_df, cleanFile, uncleanFile,
                   textVars, rowVars, intentVars>>

\* Step 1: json.load, pd.DataFrame, total_raw, "Loaded ..."
Load ==
    /\ pc = "start"
    /\ rawExists
    /\ log' = Append(log, "read")
    /\ df' = DataFrame(raw)
    /\ columns' = Columns(raw)
    /\ total_raw' = Len(raw)
    /\ console' = Append(console, Line("Loaded", Len(raw)))
    /\ pc' = "loaded"
    /\ UNCHANGED <<rawExists, dirExists, raw, naCollapse, MIN_ANSWER_LEN,
                   clean_df, unclean_df, cleanFile, uncleanFile, textVars, rowVars, intentVars>>

\* df[col].astype(str).apply(clean_text) for a column the frame has
CleanCell(r, cols, c) ==
    IF c \in cols THEN StrV(clean_text(StrV(PyStr(r[c])))) ELSE r[c]

\* the loop of Step 2 over question, body and answer
CleanFrame(rows, cols) ==
    [i \in 1..Len(rows) |->
        [rows[i] EXCEPT !.question = CleanCell(rows[i], cols, "question"),
                        !.body = CleanCell(rows[i], cols, "body"),
                        !.answer = CleanCell(rows[i], cols, "answer")]]

\* Step 2: clean question, body and answer
CleanTextFields ==
    /\ pc = "loaded"
    /\ log' = Append(log, "normalize")
    /\ df' = CleanFrame(df, columns)
    /\ pc' = "cleaned"
    /\ UNCHANGED <<rawExists, dirExists, raw, naCollapse, MIN_ANSWER_LEN, columns,
                   total_raw, clean_df, unclean_df, cleanFile, uncleanFile, console,
                   textVars, rowVars, intentVars>>

\* two url cells count as duplicates of each other
SameKey(u, v) == u = v \/ (naCollapse /\ IsNA(u) /\ IsNA(v))

\* drop_duplicates keeping the last row of each url
KeepLast(rows) ==
    LET Test(r) == \A j \in 1..Len(rows) :
                      rows[j].idx > r.idx => ~SameKey(rows[j].url, r.url)
    IN SelectSeq(rows, Test)

\* drop_duplicates(subset=["url"]), keep="first": a row stays when no earlier row
\* has its url
KeepFirst(rows) ==
    LET Test(r) == \A j \in 1..Len(rows) :
                      rows[j].idx < r.idx => ~SameKey(rows[j].url, r.url)
    IN SelectSeq(rows, Test)

\* Step 3: drop duplicates; an empty frame is left alone, a frame without a url
\* column raises KeyError
DropDuplicates ==
    /\ pc = "cleaned"
    /\ IF Empty(df, columns)
       THEN pc' = "deduped" /\ df' = df /\ log' = Append(log, "deduplicate")
       ELSE IF "url" \notin columns
            THEN pc' = "failed" /\ df' = df /\ log' = log
            ELSE pc' = "deduped" /\ df' = KeepFirst(df)
                 /\ log' = Append(log, "deduplicate")
    /\ UNCHANGED <<rawExists, dirExists, raw, naCollapse, MIN_ANSWER_LEN, columns,
                   total_raw, clean_df, unclean_df, cleanFile, uncleanFile, console,
                   textVars, rowVars, intentVars>>

\* df.apply(categorize_unclean, axis=1) stored as the reason column
CategorizeFrame(rows, cols) ==
    [i \in 1..Len(rows) |->
        [rows[i] EXCEPT !.reason = categorize_unclean(rows[i], cols)]]

\* Step 4: df["reason"] = df.apply(categorize_unclean, axis=1)
CategorizeRows ==
    /\ pc = "deduped"
    /\ log' = Append(log, "classify")
    /\ df' = CategorizeFrame(df, columns)
    /\ columns' = columns \cup {"reason"}
    /\ pc' = "categorized"
    /\ UNCHANGED <<rawExists, dirExists, raw, naCollapse, MIN_ANSWER_LEN,
                   total_raw, clean_df, unclean_df, cleanFile, uncleanFile, console,
                   textVars, rowVars, intentVars>>

\* the clean mask with a strict length comparison
IsClean_Strict(r) ==
    /\ r.reason = "Other"
    /\ ~IsNA(r.answer)
    /\ r.answer.kind = "str" => Strip(r.answer.s) # <<>>
    /\ r.answer.kind = "str" /\ Len(r.answer.s) > MIN_ANSWER_LEN

\* the mask of Step 5: reason, notna, .str.strip() != "", .str.len() >= MIN
IsClean(r) ==
    /\ r.reason = "Other"
    /\ ~IsNA(r.answer)
    /\ r.answer.kind = "str" => Strip(r.answer.s) # <<>>
    /\ r.answer.kind = "str" /\ Len(r.answer.s) >= MIN_ANSWER_LEN

\* Step 5 writing clean_df to CLEAN_PATH at once, before unclean_df is collected
FilterClean_SavesEarly ==
    /\ pc = "categorized"
    /\ IF "answer" \notin columns
       THEN pc' = "failed" /\ clean_df' = clean_df /\ log' = log
            /\ cleanFile' = cleanFile
       ELSE pc' = "filtered" /\ clean_df' = SelectSeq(df, IsClean)
            /\ log' = Append(log, "write_clean")
            /\ cleanFile' = Written(SelectSeq(df, IsClean))
    /\ UNCHANGED <<rawExists, dirExists, raw, naCollapse, MIN_ANSWER_LEN, df, columns,
                   total_raw, unclean_df, uncleanFile, console,
                   textVars, rowVars, intentVars>>

\* Step 5: clean_df = df[mask]; a frame without an answer column raises KeyError
FilterClean ==
    /\ pc = "categorized"
    /\ log' = log
    /\ IF "answer" \notin columns
       THEN pc' = "failed" /\ clean_df' = clean_df
       ELSE pc' = "filtered" /\ clean_df' = SelectSeq(df, IsClean)
    /\ UNCHANGED <<rawExists, dirExists, raw, naCollapse, MIN_ANSWER_LEN, df, columns,
                   total_raw, unclean_df, cleanFile, uncleanFile, console,
                   textVars, rowVars, intentVars>>

\* the rows of the frame whatever clean_df holds
Complement_All(rows, chosen) == rows

\* df[~df.index.isin(clean_df.index)]
Complement(rows, chosen) ==
    LET labels == {chosen[i].idx : i \in 1..Len(chosen)}
        Test(r) == r.idx \notin labels
    IN SelectSeq(rows, Test)

\* Step 6: unclean_df = the rows whose index label is not in clean_df
CollectUnclean ==
    /\ pc = "filtered"
    /\ log' = Append(log, "partition")
    /\ unclean_df' = Complement(df, clean_df)
    /\ pc' = "collected"
    /\ UNCHANGED <<rawExists, dirExists, raw, naCollapse, MIN_ANSWER_LEN, df, columns,
                   total_raw, clean_df, cleanFile, uncleanFile, console,
                   textVars, rowVars, intentVars>>

\* Step 7: output_folder.mkdir(parents=True, exist_ok=True)
MakeFolder ==
    /\ pc = "collected"
    /\ log' = log
    /\ dirExists' = TRUE
    /\ pc' = "folder"
    /\ UNCHANGED <<rawExists, raw, naCollapse, MIN_ANSWER_LEN, df, columns,
                   total_raw, clean_df, unclean_df, cleanFile, uncleanFile, console,
                   textVars, rowVars, intentVars>>

\* Step 7: clean_df.to_csv(CLEAN_PATH)
SaveClean ==
    /\ pc = "folder"
    /\ log' = Append(log, "write_clean")
    /\ cleanFile' = Written(clean_df)
    /\ pc' = "clean_saved"
    /\ UNCHANGED <<rawExists, dirExists, raw, naCollapse, MIN_ANSWER_LEN, df, columns,
                   total_raw, clean_df, unclean_df, uncleanFile, console,
                   textVars, rowVars, intentVars>>

\* Step 7: unclean_df.to_csv(UNCLEAN_PATH)
SaveUnclean ==
    /\ pc = "clean_saved"
    /\ log' = Append(log, "write_unclean")
    /\ uncleanFile' = Written(unclean_df)
    /\ pc' = "unclean_saved"
    /\ UNCHANGED <<rawExists, dirExists, raw, naCollapse, MIN_ANSWER_LEN, df, columns,
                   total_raw, clean_df, unclean_df, cleanFile, console,
                   textVars, rowVars, intentVars>>

\* value_counts taken over the whole frame instead of unclean_df
ValueCounts_OfFrame(rows) ==
    LET present == {df[i].reason : i \in 1..Len(df)}
    IN [v \in present |-> Cardinality({i \in 1..Len(df) : df[i].reason = v})]

\* unclean_df["reason"].value_counts(): the reasons that occur, each with its count
ValueCounts(rows) ==
    LET present == {rows[i].reason : i \in 1..Len(rows)}
    IN [v \in present |-> Cardinality({i \in 1..Len(rows) : rows[i].reason = v})]

\* Steps 8 and 9: the summary lines and the breakdown
Report ==
    /\ pc = "unclean_saved"
    /\ log' = log
    /\ console' = console \o
          <<Line("Cleaning Complete", 0),
            Line("Total raw entries", total_raw),
            Line("Cleaned entries", Len(clean_df)),
            Line("Uncleaned entries", Len(unclean_df)),
            Line("Breakdown of Uncleaned Entries", ValueCounts(unclean_df))>>
    /\ pc' = "done"
    /\ UNCHANGED <<rawExists, dirExists, raw, naCollapse, MIN_ANSWER_LEN, df, columns,
                   total_raw, clean_df, unclean_df, cleanFile, uncleanFile,
                   textVars, rowVars, intentVars>>

\* Steps 2 to 6 on a batch: the frame with its reasons, or the KeyError
RunFails(data) ==
    \/ ~Empty(DataFrame(data), Columns(data)) /\ "url" \notin Columns(data)
    \/ "answer" \notin Columns(data)

Classified(data) ==
    LET cols == Columns(data)
        cleaned == CleanFrame(DataFrame(data), cols)
        deduped == IF Empty(cleaned, cols) THEN cleaned ELSE KeepFirst(cleaned)
    IN CategorizeFrame(deduped, cols)

UncleanOf(data) ==
    Complement(Classified(data), SelectSeq(Classified(data), IsClean))

Next ==
    \/ NotFound
    \/ Load
    \/ CleanTextFields
    \/ DropDuplicates
    \/ CategorizeRows
    \/ FilterClean
    \/ CollectUnclean
    \/ MakeFolder
    \/ SaveClean
    \/ SaveUnclean
    \/ Report

Spec == Init /\ [][Next]_vars

----------------------------------------------------------------------------
(* src/dataset_creation: classify_intent_llm and add_intents_to_dataset *)

\* longest cleaned dataset handed to add_intents_to_dataset
MaxIntentRows == 2

\* len(question.strip()) < 5
MinQuestionLen == 5
\* body[:500] when len(body) > 500
BodyLimit == 500

GeneralQuery == <<"g", "e", "n", "e", "r", "a", "l", "_", "q", "u", "e", "r", "y">>

INTENT_LABELS ==
    {<<"g", "r", "e", "e", "t", "i", "n", "g">>,
     <<"p", "r", "i", "c", "i", "n", "g">>,
     <<"s", "e", "t", "u", "p">>,
     <<"t", "r", "o", "u", "b", "l", "e", "s", "h", "o", "o", "t", "i", "n", "g">>,
     <<"f", "e", "a", "t", "u", "r", "e", "_", "i", "n", "f", "o", "r", "m", "a", "t", "i", "o", "n">>,
     <<"g", "e", "n", "e", "r", "a", "l", "_", "q", "u", "e", "r", "y">>}

\* what client.responses.create does: it returns a text or it raises
Text(t) == [kind |-> "text", s |-> t]
Raise == [kind |-> "raise", s |-> <<>>]
NoOutcome == [kind |-> "none", s |-> <<>>]

LLMOutcomes ==
    {Raise,
     Text(<<"s", "e", "t", "u", "p">>), Text(<<" ", "S", "E", "T", "U", "P", "\n">>), Text(<<"s", "e", "t", "u", "p", ".">>),
     Text(<<>>), Text(<<"p", "r", "i", "c", "i", "n", "g">>), Text(GeneralQuery)}

\* not question or len(question.strip()) < 5
SkipsLLM(q) == q.s = <<>> \/ Len(Strip(q.s)) < MinQuestionLen

\* (body[:500] + "...") if body and len(body) > 500 else body or ""
body_summary(b) ==
    IF b.s # <<>> /\ Len(b.s) > BodyLimit
    THEN SubSeq(b.s, 1, BodyLimit) \o <<".", ".", ".">>
    ELSE b.s

\* the try block returning the answer of the LLM as it comes, unchecked
IntentOf_Unchecked(outcome) ==
    IF outcome.kind = "raise" THEN GeneralQuery
    ELSE Lower(Strip(outcome.s))

\* the try block: the stripped, lowercased text when it is a label, else
\* "general_query"; "general_query" when the call raises
IntentOf(outcome) ==
    IF outcome.kind = "raise" THEN GeneralQuery
    ELSE LET intent == Lower(Strip(outcome.s))
         IN IF intent \in INTENT_LABELS THEN intent ELSE GeneralQuery

\* classify_intent_llm(question, body) for str arguments, given what the LLM does
classify_intent_llm(q, b, outcome) ==
    IF SkipsLLM(q) THEN GeneralQuery ELSE IntentOf(outcome)

NoCall == [n |-> 0, summary |-> 0, outcome |-> NoOutcome]
OneCall(b, outcome) == [n |-> 1, summary |-> Len(body_summary(b)), outcome |-> outcome]

\* the cells pd.read_csv gives: a str, or NaN for an empty field
IntentQuestions ==
    {NaN, StrV(<<>>), StrV(Rep(" ", MinQuestionLen + 1)),
     StrV(<<" ", "a", "b", "c", "d", " ">>), StrV(<<" ", "a", "b", "c", "d", "e">>)}

IntentBodies == {NaN, StrV(<<"b">>), StrV(Rep("b", BodyLimit + 1))}

IntentRows == {[question |-> q, body |-> b] : q \in IntentQuestions, b \in IntentBodies}

InitIntent ==
    /\ pc = "intent_loop"
    /\ idf \in UNION {[1..n -> IntentRows] : n \in 0..MaxIntentRows}
    /\ intents = <<>>
    /\ calls = <<>>
    /\ intentFile = [state |-> "absent", rows |-> <<>>]
    /\ MIN_ANSWER_LEN = DefaultMinLen
    /\ IdleRun
    /\ IdleText
    /\ IdleRow

\* one turn of the loop of add_intents_to_dataset: classify_intent_llm on the next
\* row.  A NaN question raises at question.strip(), a NaN body at len(body), both
\* outside the try block, and the exception leaves add_intents_to_dataset.
ClassifyNext ==
    /\ pc = "intent_loop"
    /\ Len(intents) < Len(idf)
    /\ LET q == idf[Len(intents) + 1].question
           b == idf[Len(intents) + 1].body
       IN IF q.kind # "str"
          THEN pc' = "intent_crashed" /\ UNCHANGED <<intents, calls>>
          ELSE IF SkipsLLM(q)
          THEN /\ intents' = Append(intents, classify_intent_llm(q, b, NoOutcome))
               /\ calls' = Append(calls, NoCall)
               /\ pc' = pc
          ELSE IF b.kind # "str"
          THEN pc' = "intent_crashed" /\ UNCHANGED <<intents, calls>>
          ELSE \E outcome \in LLMOutcomes :
                  /\ intents' = Append(intents, classify_intent_llm(q, b, outcome))
                  /\ calls' = Append(calls, OneCall(b, outcome))
                  /\ pc' = pc
    /\ UNCHANGED <<idf, intentFile, MIN_ANSWER_LEN, runVars, textVars, rowVars>>

\* df["intent"] = intents; df.to_csv(INTENT_DATA_PATH)
SaveIntents ==
    /\ pc = "intent_loop"
    /\ Len(intents) = Len(idf)
    /\ intentFile' =
          [state |-> "written",
           rows |-> [k \in 1..Len(idf) |->
                        [question |-> idf[k].question, body |-> idf[k].body,
                         intent |-> intents[k]]]]
    /\ pc' = "intent_done"
    /\ UNCHANGED <<idf, intents, calls, MIN_ANSWER_LEN, runVars, textVars, rowVars>>

NextIntent == ClassifyNext \/ SaveIntents

SpecIntent == InitIntent /\ [][NextIntent]_vars

----------------------------------------------------------------------------
(* Properties *)

RowsOf(rows) == {rows[i] : i \in 1..Len(rows)}

Partitioned == pc \in {"collected", "folder", "clean_saved", "unclean_saved", "done"}
Filtered == pc = "filtered" \/ Partitioned
Deduped == pc \in {"deduped", "categorized"} \/ Filtered

\* C1: once clean_dataset has split the deduplicated, classified frame, every row
\* of the frame is in exactly one of clean_df and unclean_df, and neither holds a
\* row that is not in the frame.
PartitionDisjointExhaustive ==
    Partitioned =>
        /\ RowsOf(clean_df) \cap RowsOf(unclean_df) = {}
        /\ RowsOf(clean_df) \cup RowsOf(unclean_df) = RowsOf(df)
        /\ Len(clean_df) + Len(unclean_df) = Len(df)
        /\ Cardinality(RowsOf(df)) = Len(df)

\* a run with duplicates dropped and rows on both sides
PartitionWitness ==
    /\ pc = "done"
    /\ Len(df) < Len(raw)
    /\ Len(clean_df) >= 1
    /\ Len(unclean_df) >= 1

\* the row's answer as the classifier reads it: trimmed str(answer), "" without the key
TrimmedAnswer(r, cols) ==
    Strip(IF "answer" \in cols THEN PyStr(r.answer) ELSE <<>>)

AnswerMissing(r, cols) ==
    Lower(TrimmedAnswer(r, cols)) \in
        {<<>>, <<"n", "o", "n", "e">>, <<"n", "a", "n">>}

UrlMalformed(r, cols) ==
    \/ "url" \notin cols
    \/ r.url.kind # "str"
    \/ Len(r.url.s) < 5
    \/ \E i \in 1..5 : r.url.s[i] # Https[i]

AnswerTooShort(r, cols) == Len(TrimmedAnswer(r, cols)) < MIN_ANSWER_LEN

\* C2: categorize_unclean returns exactly one of the four reasons for every row,
\* the first that applies of: missing answer -> No Answer, malformed url ->
\* Malformed Entry, answer shorter than the minimum -> Too Short, else Other.
ClassificationPrecedence ==
    pc = "row_done" =>
        /\ result \in Reasons
        /\ result = "No Answer" <=> AnswerMissing(row, rowCols)
        /\ result = "Malformed Entry" <=>
              ~AnswerMissing(row, rowCols) /\ UrlMalformed(row, rowCols)
        /\ result = "Too Short" <=>
              /\ ~AnswerMissing(row, rowCols)
              /\ ~UrlMalformed(row, rowCols)
              /\ AnswerTooShort(row, rowCols)
        /\ result = "Other" <=>
              /\ ~AnswerMissing(row, rowCols)
              /\ ~UrlMalformed(row, rowCols)
              /\ ~AnswerTooShort(row, rowCols)

\* an empty answer with a malformed url is No Answer
PrecedenceWitness ==
    /\ pc = "row_done"
    /\ "answer" \in rowCols
    /\ row.answer = StrV(<<" ", "\n">>)
    /\ row.url = StrV(<<"f", "t", "p", ":", "1">>)
    /\ "url" \in rowCols
    /\ result = "No Answer"

\* C3: a row of the deduplicated frame is in clean_df exactly when its reason is
\* Other, its answer is not null, its trimmed answer is not empty and the trimmed
\* answer has at least MIN_ANSWER_LEN characters.
CleanIffValid ==
    Filtered =>
        \A r \in RowsOf(df) :
            r \in RowsOf(clean_df) <=>
                /\ r.reason = "Other"
                /\ ~IsNA(r.answer)
                /\ r.answer.kind = "str"
                /\ Strip(r.answer.s) # <<>>
                /\ Len(Strip(r.answer.s)) >= MIN_ANSWER_LEN

\* an answer of exactly the minimum is clean, one character shorter is not
CleanBoundaryWitness ==
    /\ pc = "done"
    /\ \E r \in RowsOf(clean_df) : Len(r.answer.s) = MIN_ANSWER_LEN
    /\ \E r \in RowsOf(unclean_df) :
          /\ Len(r.answer.s) = MIN_ANSWER_LEN - 1
          /\ r.url.kind = "str"
          /\ StartsWith(r.url.s, Https)

\* C4: after drop_duplicates the frame holds, for each url of the batch, the first
\* record with that url (cleaned) and no later one, in the order of the batch.
\* A null and a missing url are no url values: of the records without a url the
\* first is kept.
DedupKeepsFirst ==
    Deduped /\ ~Empty(DataFrame(raw), Columns(raw)) =>
        /\ \A i \in 1..Len(df) :
              /\ df[i].idx \in 0..(Len(raw) - 1)
              /\ df[i].url = raw[df[i].idx + 1].url
              /\ [df[i] EXCEPT !.reason = ""] =
                    CleanFrame(DataFrame(raw), Columns(raw))[df[i].idx + 1]
        /\ \A i, j \in 1..Len(df) : i < j => df[i].idx < df[j].idx
        /\ \A k \in 1..Len(raw) :
              raw[k].url.kind = "str" =>
                  ((\E i \in 1..Len(df) : df[i].idx = k - 1)
                      <=> (\A j \in 1..(k - 1) : raw[j].url # raw[k].url))
        /\ \A k \in 1..Len(raw) :
              IsNA(raw[k].url) /\ (\A j \in 1..(k - 1) : ~IsNA(raw[j].url)) =>
                  \E i \in 1..Len(df) : df[i].idx = k - 1
        /\ \A k \in 1..Len(raw) :
              (\E j \in 1..(k - 1) : raw[j].url = raw[k].url) =>
                  ~(\E i \in 1..Len(df) : df[i].idx = k - 1)

\* urls [a, b, a] with different answers become [a, b]
DedupWitness ==
    /\ pc = "done"
    /\ Len(raw) = 3
    /\ raw[1].url = U1 /\ raw[2].url = U2 /\ raw[3].url = U1
    /\ raw[1].answer # raw[3].answer
    /\ Len(df) = 2
    /\ df[1].url = U1 /\ df[2].url = U2

\* C5: clean_text(clean_text(s)) = clean_text(s) for every string s.
CleanTextIdempotent == pc = "text_twice" => out2 = out1

\* the nested entity "&a;a;" (as "&amp;amp;") leaves "a;"
IdempotentWitness ==
    /\ pc = "text_twice"
    /\ text = StrV(<<"&", "a", ";", "a", ";">>)
    /\ out1 = <<"a", ";">>

HasEntity(s) ==
    \E i, j \in 1..Len(s) :
        /\ i + 1 < j
        /\ s[i] = "&"
        /\ s[j] = ";"
        /\ \A k \in (i + 1)..(j - 1) : IsWord(s[k])

\* C6: the output of clean_text holds no '&' + word characters + ';', no two
\* whitespace characters in a row and no whitespace at either end; None and ""
\* give ""; "a&nbsp;b   c" gives "a b c".
CleanTextOutputNormal ==
    /\ pc \in {"text_once", "text_twice"} =>
          /\ ~HasEntity(out1)
          /\ \A i \in 1..(Len(out1) - 1) : ~(IsSpace(out1[i]) /\ IsSpace(out1[i + 1]))
          /\ out1 # <<>> => ~IsSpace(out1[1]) /\ ~IsSpace(out1[Len(out1)])
          /\ (text = None \/ text = StrV(<<>>)) => out1 = <<>>
    /\ clean_text(StrV(<<"a", "&", "n", "b", "s", "p", ";", "b", " ", " ", " ", "c">>))
          = <<"a", " ", "b", " ", "c">>

\* an entity next to whitespace collapses to one space
OutputNormalWitness ==
    /\ pc = "text_once"
    /\ text = StrV(<<"\n", "&", "a", ";", " ", "a">>)
    /\ out1 = <<"a">>

\* every row of unclean_df is a row of the frame with the reason the classifier gives it
UncleanCarriesReason ==
    Partitioned =>
        \A r \in RowsOf(unclean_df) :
            /\ r \in RowsOf(df)
            /\ r.reason = categorize_unclean(r, columns \ {"reason"})

\* C7 (as amended): every row of unclean_df carries the reason the classifier
\* assigned, and the length re-check of the mask never excludes a row tagged
\* Other: clean_df is exactly the rows tagged Other and unclean_df holds none.
UncleanNeverOther ==
    /\ UncleanCarriesReason
    /\ Partitioned =>
          /\ \A r \in RowsOf(unclean_df) : r.reason # "Other"
          /\ \A r \in RowsOf(df) : r.reason = "Other" => r \in RowsOf(clean_df)

\* C7 (as claimed): every row of unclean_df carries the classifier's reason, and
\* some batch gives a run whose unclean_df holds a row with reason Other.
UncleanCanHoldOther ==
    /\ UncleanCarriesReason
    /\ pc = "done" =>
          \E b \in Batches(MIN_ANSWER_LEN) :
              /\ ~RunFails(b)
              /\ \E r \in RowsOf(UncleanOf(b)) : r.reason = "Other"

\* a run with clean rows and unclean rows of two different reasons
UncleanWitness ==
    /\ pc = "done"
    /\ Len(clean_df) >= 1
    /\ \E r, t \in RowsOf(unclean_df) : r.reason # t.reason

Categorized == pc = "categorized" \/ Filtered

\* C8 (as claimed): no missing or null field makes the run fail, and every row gets
\* a reason: No Answer for a null or missing answer, else Malformed Entry for a
\* null or missing url.
MissingFieldNeverFails ==
    /\ pc # "failed"
    /\ Categorized =>
          \A r \in RowsOf(df) :
              /\ r.reason \in Reasons
              /\ IsNA(raw[r.idx + 1].answer) => r.reason = "No Answer"
              /\ IsNA(raw[r.idx + 1].url) /\ r.reason # "No Answer" =>
                    r.reason = "Malformed Entry"

\* C9: with no raw file the run prints its message and returns; it writes neither
\* output file and does not create or change the output folder.
MissingInputIsNoOp ==
    [][/\ (pc = "start" /\ ~rawExists) =>
              /\ pc' = "returned"
              /\ console' = <<Line("raw_data.json not found", 0)>>
              /\ UNCHANGED <<dirExists, cleanFile, uncleanFile>>
       /\ pc = "returned" => UNCHANGED vars]_vars

\* the run has returned and there is still no output folder
MissingInputWitness ==
    /\ pc = "returned"
    /\ ~rawExists
    /\ ~dirExists
    /\ cleanFile = Absent /\ uncleanFile = Absent
    /\ Len(console) = 1

Reports(what, n) ==
    \E i \in 1..Len(console) : console[i].what = what /\ console[i].value = n

CountOf(rows, v) == Cardinality({i \in 1..Len(rows) : rows[i].reason = v})

\* C10 (as amended): the summary of a completed run holds the raw count, the clean
\* count, the unclean count and the count of every reason that occurs among the
\* unclean rows.
SummaryReportsCounts ==
    pc = "done" =>
        /\ Reports("Total raw entries", Len(raw))
        /\ Reports("Cleaned entries", Len(clean_df))
        /\ Reports("Uncleaned entries", Len(unclean_df))
        /\ \E i \in 1..Len(console) :
              /\ console[i].what = "Breakdown of Uncleaned Entries"
              /\ DOMAIN console[i].value =
                    {v \in Reasons : CountOf(unclean_df, v) > 0}
              /\ \A v \in DOMAIN console[i].value :
                    console[i].value[v] = CountOf(unclean_df, v)

\* C10 (as claimed): the summary also holds the deduplicated count, as one of its
\* counts.
SummaryReportsDedupCount ==
    /\ SummaryReportsCounts
    /\ pc = "done" =>
          \E what \in {"Loaded", "Total raw entries", "Cleaned entries",
                       "Uncleaned entries"} : Reports(what, Len(df))

\* three raw records, two after deduplication, one clean and one unclean
SummaryWitness ==
    /\ pc = "done"
    /\ Len(raw) = 3
    /\ Len(df) = 2
    /\ Len(clean_df) = 1
    /\ Len(unclean_df) = 1

\* the stages of a run, in the order of the code
Stages ==
    <<"read", "normalize", "deduplicate", "classify", "partition",
      "write_clean", "write_unclean">>

IsPrefix(a, b) == Len(a) <= Len(b) /\ a = SubSeq(b, 1, Len(a))

Occurred(e) == \E i \in 1..Len(log) : log[i] = e

\* the stages so far follow the order of the code, each at most once, and a file
\* is written only from a frame that is classified and split
StagesInOrder ==
    /\ IsPrefix(log, Stages)
    /\ Occurred("write_clean") <=> cleanFile.state = "written"
    /\ Occurred("write_unclean") <=> uncleanFile.state = "written"
    /\ Occurred("write_clean") \/ Occurred("write_unclean") =>
          /\ Occurred("partition")
          /\ \A r \in RowsOf(df) : r.reason \in Reasons
          /\ RowsOf(clean_df) \cup RowsOf(unclean_df) = RowsOf(df)
    /\ cleanFile.state = "written" => cleanFile.rows = clean_df
    /\ uncleanFile.state = "written" => uncleanFile.rows = unclean_df

\* C11 (as amended): in every run the stages happen in the order read, normalize,
\* deduplicate, classify, partition, write, the input is read at most once and
\* each output file is written at most once and only after the partition; a run
\* that completes has read the input exactly once and written each output
\* exactly once; a run that finds no raw file reads and writes nothing.
StagesOnceInOrder ==
    /\ StagesInOrder
    /\ pc = "done" => log = Stages
    /\ pc = "returned" => log = <<>>

\* C11 (as claimed): every run, however it ends, has gone through all the stages
\* in order, reading the input once and writing each output once.
EveryRunAllStages ==
    /\ StagesInOrder
    /\ pc \in {"done", "returned", "failed"} => log = Stages

\* a completed run over a batch with a duplicate, both files written
StagesWitness ==
    /\ pc = "done"
    /\ log = Stages
    /\ Len(df) < Len(raw)
    /\ cleanFile.state = "written" /\ Len(cleanFile.rows) >= 1
    /\ uncleanFile.state = "written" /\ Len(uncleanFile.rows) >= 1

IntentRowIsStr(r) == r.question.kind = "str" /\ r.body.kind = "str"

\* C12: for str question and body classify_intent_llm returns a label: without a
\* call "general_query" when the question is empty or shorter than 5 once
\* trimmed; else after exactly one call the trimmed, lowercased answer when it is
\* a label and "general_query" when it is not or the call raised.  A dataset of
\* str cells gets one intent per row and no failed call stops the loop.
IntentAlwaysLabel ==
    /\ Len(calls) = Len(intents)
    /\ Len(intents) <= Len(idf)
    /\ \A k \in 1..Len(intents) :
          LET q == idf[k].question.s
              c == calls[k]
              answer == Lower(Strip(c.outcome.s))
          IN /\ intents[k] \in INTENT_LABELS
             /\ c.n \in {0, 1}
             /\ c.n = 0 <=> (q = <<>> \/ Len(Strip(q)) < 5)
             /\ c.n = 0 => intents[k] = GeneralQuery
             /\ c.n = 1 /\ c.outcome.kind = "raise" => intents[k] = GeneralQuery
             /\ c.n = 1 /\ c.outcome.kind = "text" /\ answer \in INTENT_LABELS =>
                   intents[k] = answer
             /\ c.n = 1 /\ c.outcome.kind = "text" /\ answer \notin INTENT_LABELS =>
                   intents[k] = GeneralQuery
    /\ (\A k \in 1..Len(idf) : IntentRowIsStr(idf[k])) => pc # "intent_crashed"
    /\ pc = "intent_done" =>
          /\ Len(intents) = Len(idf)
          /\ Len(intentFile.rows) = Len(idf)
          /\ \A k \in 1..Len(idf) : intentFile.rows[k].intent = intents[k]

\* the first call raised, the second answered " SETUP" and a newline: both rows
\* have their intent in the saved file
IntentWitness ==
    /\ pc = "intent_done"
    /\ Len(idf) = 2
    /\ calls[1].n = 1 /\ calls[1].outcome = Raise
    /\ intents[1] = GeneralQuery
    /\ calls[2].outcome = Text(<<" ", "S", "E", "T", "U", "P", "\n">>)
    /\ intents[2] = <<"s", "e", "t", "u", "p">>

====
